---- MODULE Spec2Model ----
(***************************************************************************)
(* CustomProvider (src/src/provider/CustomProvider.ts): the node list      *)
(* ingestion pipeline of a provider.  getNodeList resolves the node source *)
(* (a static array or an asynchronous supplier), then runs every           *)
(* descriptor through the legacy base64 decoder, the deprecated-field      *)
(* guard, the type dispatcher, the underlying-proxy fill and the vmess     *)
(* post-processing inside a try/catch of its own.                          *)
(*                                                                         *)
(* JavaScript values are tagged records [k |-> kind, v |-> value]; a       *)
(* JavaScript string is a sequence of one-character strings, so that       *)
(* split, match, parseInt and Base64.decode are computed, not assumed.     *)
(***************************************************************************)
EXTENDS Integers, Sequences, FiniteSets, TLC

----------------------------------------------------------------------------
(* JavaScript values *)

Undef == [k |-> "undefined"]
Null == [k |-> "null"]
Bool(b) == [k |-> "boolean", v |-> b]
Num(n) == [k |-> "number", v |-> n]
NaN == [k |-> "NaN"]
Str(s) == [k |-> "string", v |-> s]
Obj(o) == [k |-> "object", v |-> o]

\* ToBoolean, as applied by if (x), !x, x || y
Truthy(x) ==
  CASE x.k = "undefined" -> FALSE
    [] x.k = "null" -> FALSE
    [] x.k = "NaN" -> FALSE
    [] x.k = "boolean" -> x.v
    [] x.k = "number" -> x.v # 0
    [] x.k = "string" -> x.v # <<>>
    [] OTHER -> TRUE

IsStr(x) == x.k = "string"

----------------------------------------------------------------------------
(* Characters: the printable ASCII range, code 32 (space) to 126 (~).  The   *)
(* backquote (code 96) is not a character of the model: a word holds its   *)
(* place.                                                                  *)

Ascii ==
  <<
     " ", "!", "\"", "#", "$", "%", "&", "'", "(", ")", "*", "+", ",", "-", ".", "/",
     "0", "1", "2", "3", "4", "5", "6", "7", "8", "9", ":", ";", "<", "=", ">", "?",
     "@", "A", "B", "C", "D", "E", "F", "G", "H", "I", "J", "K", "L", "M", "N", "O",
     "P", "Q", "R", "S", "T", "U", "V", "W", "X", "Y", "Z", "[", "\\", "]", "^", "_",
     "BACKQUOTE", "a", "b", "c", "d", "e", "f", "g", "h", "i", "j", "k", "l", "m", "n", "o",
     "p", "q", "r", "s", "t", "u", "v", "w", "x", "y", "z", "{", "|", "}", "~" >>

\* the 64 digits of base64, in value order
B64Digits ==
  <<
     "A", "B", "C", "D", "E", "F", "G", "H", "I", "J", "K", "L", "M", "N", "O", "P",
     "Q", "R", "S", "T", "U", "V", "W", "X", "Y", "Z", "a", "b", "c", "d", "e", "f",
     "g", "h", "i", "j", "k", "l", "m", "n", "o", "p", "q", "r", "s", "t", "u", "v",
     "w", "x", "y", "z", "0", "1", "2", "3", "4", "5", "6", "7", "8", "9", "+", "/" >>

Has(seq, c) == \E i \in 1..Len(seq) : seq[i] = c

\* indexOf + 1: the first position of c in seq
IndexOf(seq, c) == CHOOSE i \in 1..Len(seq) : seq[i] = c /\ (i = 1 \/ ~Has(SubSeq(seq, 1, i - 1), c))

CharCode(c) == 31 + IndexOf(Ascii, c)
\* a byte outside the printable range decodes to the replacement character
CharOf(n) == IF n - 31 \in 1..Len(Ascii) THEN Ascii[n - 31] ELSE "?"

IsB64Digit(c) == Has(B64Digits, c)
\* [A-Za-z0-9+/=]
IsB64PatternChar(c) == IsB64Digit(c) \/ c = "="

----------------------------------------------------------------------------
(* Strings *)

StartsWith(s, pre) == Len(s) >= Len(pre) /\ SubSeq(s, 1, Len(pre)) = pre
Drop(s, n) == SubSeq(s, n + 1, Len(s))

\* String.prototype.split with a one-character separator: a sequence of
\* strings with one more element than s has separators
RECURSIVE Split(_, _)
Split(s, c) ==
  IF ~Has(s, c)
    THEN <<s>>
    ELSE LET i == IndexOf(s, c)
         IN <<SubSeq(s, 1, i - 1)>> \o Split(Drop(s, i), c)

\* a destructured array element: undefined past the end
At(arr, i) == IF i <= Len(arr) THEN Str(arr[i]) ELSE Undef

Digits == <<"0", "1", "2", "3", "4", "5", "6", "7", "8", "9">>
IsDigit(c) == Has(Digits, c)
DigitVal(c) == IndexOf(Digits, c) - 1

RECURSIVE SkipSpaces(_)
SkipSpaces(s) == IF s # <<>> /\ s[1] = " " THEN SkipSpaces(Tail(s)) ELSE s

\* the longest prefix of s made of digits
RECURSIVE DigitPrefix(_)
DigitPrefix(s) ==
  IF s # <<>> /\ IsDigit(s[1]) THEN <<s[1]>> \o DigitPrefix(Tail(s)) ELSE <<>>

RECURSIVE DecimalValue(_)
DecimalValue(ds) ==
  IF ds = <<>> THEN 0
  ELSE DecimalValue(SubSeq(ds, 1, Len(ds) - 1)) * 10 + DigitVal(ds[Len(ds)])

\* parseInt(x, 10): x is converted to a string ("undefined" for undefined),
\* leading blanks are skipped, an optional sign is read, then the longest
\* run of digits; NaN when there is none
ParseInt(x) ==
  IF ~IsStr(x) THEN NaN
  ELSE LET t == SkipSpaces(x.v)
           neg == t # <<>> /\ t[1] = "-"
           u == IF t # <<>> /\ t[1] \in {"-", "+"} THEN Tail(t) ELSE t
           ds == DigitPrefix(u)
       IN IF ds = <<>> THEN NaN
          ELSE Num(IF neg THEN 0 - DecimalValue(ds) ELSE DecimalValue(ds))

----------------------------------------------------------------------------
(* Base64 (js-base64) *)

Keep(s, Test(_)) == SelectSeq(s, Test)

\* Base64.decode: characters that are no base64 digit (the padding) are
\* removed, every 4 digits give 3 bytes, a last group of 2 or 3 digits
\* gives 1 or 2 bytes, and each byte is read as a character
Base64Decode(s) ==
  LET t == Keep(s, IsB64Digit)
      sx == [i \in 1..Len(t) |-> IndexOf(B64Digits, t[i]) - 1]
      n == (Len(t) * 6) \div 8
      byte(j) ==
        LET q == ((8 * j) \div 6) + 1
            r == (8 * j) % 6
        IN CASE r = 0 -> sx[q] * 4 + (sx[q + 1] \div 16)
             [] r = 2 -> (sx[q] % 16) * 16 + (sx[q + 1] \div 4)
             [] OTHER -> (sx[q] % 4) * 64 + sx[q + 1]
  IN [j \in 1..n |-> CharOf(byte(j - 1))]

\* Base64.encode, by which a configuration author produces an envelope:
\* every 3 bytes give 4 digits, the last group is padded with "="
Base64Encode(s) ==
  LET b == [i \in 1..Len(s) |-> CharCode(s[i])]
      n == ((Len(s) * 8) + 5) \div 6
      nb(q) == IF q <= Len(s) THEN b[q] ELSE 0
      sextet(i) ==
        LET q == ((6 * i) \div 8) + 1
            r == (6 * i) % 8
        IN CASE r = 0 -> b[q] \div 4
             [] r = 6 -> (b[q] % 4) * 16 + (nb(q + 1) \div 16)
             [] r = 4 -> (b[q] % 16) * 4 + (nb(q + 1) \div 64)
             [] OTHER -> b[q] % 64
      pad == (4 - (n % 4)) % 4
  IN [i \in 1..n |-> B64Digits[sextet(i - 1) + 1]] \o [i \in 1..pad |-> "="]

----------------------------------------------------------------------------
(* NodeTypeEnum: the type tags the dispatcher knows *)

Shadowsocks == <<"s", "h", "a", "d", "o", "w", "s", "o", "c", "k", "s">>
Shadowsocksr == <<"s", "h", "a", "d", "o", "w", "s", "o", "c", "k", "s", "r">>
Vmess == <<"v", "m", "e", "s", "s">>
Trojan == <<"t", "r", "o", "j", "a", "n">>
Socks5 == <<"s", "o", "c", "k", "s", "5">>
HTTP == <<"h", "t", "t", "p">>
HTTPS == <<"h", "t", "t", "p", "s">>
Snell == <<"s", "n", "e", "l", "l">>
Tuic == <<"t", "u", "i", "c">>
Wireguard == <<"w", "i", "r", "e", "g", "u", "a", "r", "d">>
Hysteria2 == <<"h", "y", "s", "t", "e", "r", "i", "a", "2">>
Vless == <<"v", "l", "e", "s", "s">>

----------------------------------------------------------------------------
(* Descriptors: a record over the fields the pipeline reads or writes; a   *)
(* field the descriptor does not carry is undefined.                       *)

Fields ==
  {"base64", "type", "udp-relay", "obfs-host", "obfs-uri", "nodeName",
   "hostname", "port", "method", "password", "underlyingProxy", "host",
   "sni", "wsHeaders", "wsOpts", "path", "network"}

BlankNode == [f \in Fields |-> Undef]

\* what a stage of the callback yields: the node, or a thrown error
Ok(node) == [ok |-> TRUE, node |-> node, err |-> ""]
Throw(node, err) == [ok |-> FALSE, node |-> node, err |-> err]

----------------------------------------------------------------------------
(* The legacy decoder *)

SsScheme == <<"s", "s", ":", "/", "/">>
VmessScheme == <<"v", "m", "e", "s", "s", ":", "/", "/">>

\* the longest prefix of s made of [A-Za-z0-9+/=]
RECURSIVE B64Prefix(_)
B64Prefix(s) ==
  IF s # <<>> /\ IsB64PatternChar(s[1]) THEN <<s[1]>> \o B64Prefix(Tail(s)) ELSE <<>>

\* s.match(/^(ss|vmess):\/\/([A-Za-z0-9+/=]+)(#.*)?$/): "#" is no character
\* of group 2, so group 2 is the longest run after the scheme, and what
\* follows it is nothing or a fragment
MatchBase64Pattern(s) ==
  LET scheme == IF StartsWith(s, SsScheme) THEN "ss"
                ELSE IF StartsWith(s, VmessScheme) THEN "vmess" ELSE ""
      rest == IF scheme = "ss" THEN Drop(s, Len(SsScheme))
              ELSE IF scheme = "vmess" THEN Drop(s, Len(VmessScheme)) ELSE <<>>
      body == B64Prefix(rest)
      frag == Drop(rest, Len(body))
  IN [matched |-> scheme # "" /\ body # <<>> /\ (frag = <<>> \/ frag[1] = "#"),
      scheme |-> scheme,
      body |-> body]

\* case NodeTypeEnum.Shadowsocks of the decoder
DecodeShadowsocks(node, decoded) ==
  LET parts == Split(decoded, ":")
      method == At(parts, 1)
      passwordWithHost == At(parts, 2)
      port == At(parts, 3)
  IN IF ~IsStr(passwordWithHost)
       THEN Throw(node, "TypeError: cannot read split of undefined")
       ELSE LET pw == Split(passwordWithHost.v, "@")
                password == At(pw, 1)
                hostname == At(pw, 2)
            IN Ok([node EXCEPT !.type = Str(Shadowsocks),
                               !.hostname = hostname,
                               !.port = ParseInt(port),
                               !.method = method,
                               !.password = password])

LegacyDecoder(node) ==
  IF ~Truthy(node.base64) THEN Ok(node)
  ELSE IF ~IsStr(node.base64)
    THEN Throw(node, "TypeError: node.base64.match is not a function")
  ELSE LET match == MatchBase64Pattern(node.base64.v)
       IN IF ~match.matched THEN Throw(node, "TypeError: Invalid base64 format")
          ELSE IF match.scheme = "ss"
            THEN DecodeShadowsocks(node, Base64Decode(match.body))
            ELSE Ok(node)

----------------------------------------------------------------------------
(* The deprecated-field guard *)

DeprecatedGuard(node) ==
  IF Truthy(node["udp-relay"]) THEN Throw(node, "udp-relay is deprecated, use udpRelay")
  ELSE IF Truthy(node["obfs-host"]) THEN Throw(node, "obfs-host is deprecated, use obfsHost")
  ELSE IF Truthy(node["obfs-uri"]) THEN Throw(node, "obfs-uri is deprecated, use obfsUri")
  ELSE Ok(node)

----------------------------------------------------------------------------
(* The schema set (../validators): one zod object schema per type tag.     *)
(* parse returns a fresh object holding the schema's own keys (an unknown  *)
(* key is dropped) or throws a ZodError.                                   *)

IsOptStr(x) == x = Undef \/ IsStr(x)
IsOptObj(x) == x = Undef \/ x.k = "object"
IsPort(x) == x.k = "number" /\ x.v \in 1..65535

CommonKeys == {"type", "nodeName", "hostname", "port", "underlyingProxy"}
CommonOk(node) ==
  /\ IsStr(node.nodeName) /\ Truthy(node.nodeName)
  /\ IsStr(node.hostname) /\ Truthy(node.hostname)
  /\ IsPort(node.port)
  /\ IsOptStr(node.underlyingProxy)

Strip(node, keys) == [f \in Fields |-> IF f \in keys THEN node[f] ELSE Undef]

SimpleParse(node) ==
  IF CommonOk(node) THEN Ok(Strip(node, CommonKeys)) ELSE Throw(node, "ZodError")

ShadowsocksNodeConfigValidator(node) ==
  IF CommonOk(node) /\ IsStr(node.method) /\ Truthy(node.method) /\ IsStr(node.password)
    THEN Ok(Strip(node, CommonKeys \cup {"method", "password"}))
    ELSE Throw(node, "ZodError")

Tcp == <<"t", "c", "p">>
Ws == <<"w", "s">>
H2 == <<"h", "2">>
Http == <<"h", "t", "t", "p">>
Networks == {Str(Tcp), Str(Ws), Str(H2), Str(Http)}

VmessNodeConfigValidator(node) ==
  IF /\ CommonOk(node)
     /\ IsOptStr(node.host) /\ IsOptStr(node.sni) /\ IsOptStr(node.path)
     /\ node.network \in Networks \cup {Undef}
     /\ IsOptObj(node.wsHeaders) /\ IsOptObj(node.wsOpts)
    THEN Ok(Strip(node, CommonKeys \cup
                  {"host", "sni", "wsHeaders", "wsOpts", "path", "network"}))
    ELSE Throw(node, "ZodError")

ShadowsocksrNodeConfigValidator(node) == SimpleParse(node)
TrojanNodeConfigValidator(node) == SimpleParse(node)
Socks5NodeConfigValidator(node) == SimpleParse(node)
HttpNodeConfigValidator(node) == SimpleParse(node)
HttpsNodeConfigValidator(node) == SimpleParse(node)
SnellNodeConfigValidator(node) == SimpleParse(node)
TuicNodeConfigValidator(node) == SimpleParse(node)
WireguardNodeConfigValidator(node) == SimpleParse(node)
Hysteria2NodeConfigValidator(node) == SimpleParse(node)
VlessNodeConfigValidator(node) == SimpleParse(node)

----------------------------------------------------------------------------
(* The type dispatcher *)

TypeDispatcher(node) ==
  LET type == node.type
  IN CASE type = Str(Shadowsocks) -> ShadowsocksNodeConfigValidator(node)
      [] type = Str(Vmess) -> VmessNodeConfigValidator(node)
      [] type = Str(Shadowsocksr) -> ShadowsocksrNodeConfigValidator(node)
      [] type = Str(Trojan) -> TrojanNodeConfigValidator(node)
      [] type = Str(Socks5) -> Socks5NodeConfigValidator(node)
      [] type = Str(HTTP) -> HttpNodeConfigValidator(node)
      [] type = Str(HTTPS) -> HttpsNodeConfigValidator(node)
      [] type = Str(Snell) -> SnellNodeConfigValidator(node)
      [] type = Str(Tuic) -> TuicNodeConfigValidator(node)
      [] type = Str(Wireguard) -> WireguardNodeConfigValidator(node)
      [] type = Str(Hysteria2) -> Hysteria2NodeConfigValidator(node)
      [] type = Str(Vless) -> VlessNodeConfigValidator(node)
      [] OTHER -> Throw(node, "TypeError: unrecognized node type")

----------------------------------------------------------------------------
(* Underlying-proxy propagation *)

UnderlyingProxyFill(underlyingProxy, parsedNode) ==
  IF Truthy(underlyingProxy) /\ ~Truthy(parsedNode.underlyingProxy)
    THEN [parsedNode EXCEPT !.underlyingProxy = underlyingProxy]
    ELSE parsedNode

----------------------------------------------------------------------------
(* prepareVmessNodeConfig *)

Slash == <<"/">>

\* if (node.host) node.sni = node.host
VmessSni(node) ==
  IF Truthy(node.host) THEN [node EXCEPT !.sni = node.host] ELSE node

\* the wsOpts is built without the default of its path
VmessWsHeadersNoDefault(node) ==
  IF ~Truthy(node.wsHeaders) THEN Ok(node)
  ELSE IF ~Truthy(node.wsOpts)
    THEN Ok([node EXCEPT !.wsOpts = Obj([headers |-> node.wsHeaders, path |-> node.path])])
  ELSE IF Truthy(node.wsOpts.v.headers)
    THEN Throw(node, "wsOpts.headers and wsHeaders cannot both be present")
  ELSE Ok([node EXCEPT !.wsOpts = Obj([node.wsOpts.v EXCEPT !.headers = node.wsHeaders])])

\* if (node.wsHeaders) ...: wsOpts is built, refused or completed
VmessWsHeaders(node) ==
  IF ~Truthy(node.wsHeaders) THEN Ok(node)
  ELSE IF ~Truthy(node.wsOpts)
    THEN Ok([node EXCEPT !.wsOpts =
               Obj([headers |-> node.wsHeaders,
                    path |-> IF Truthy(node.path) THEN node.path ELSE Str(Slash)])])
  ELSE IF Truthy(node.wsOpts.v.headers)
    THEN Throw(node, "wsOpts.headers and wsHeaders cannot both be present")
  ELSE Ok([node EXCEPT !.wsOpts = Obj([node.wsOpts.v EXCEPT !.headers = node.wsHeaders])])

\* the check of ws takes a path that wsOpts carries for relocated
VmessPathCheckRelocated(node) ==
  IF node.network = Str(Ws) /\ Truthy(node.path) /\ ~Truthy(node.wsOpts)
    THEN Throw(node, "move path to wsOpts.path")
  ELSE IF node.network = Str(H2) /\ Truthy(node.path)
    THEN Throw(node, "move path to h2Opts.path")
  ELSE IF node.network = Str(Http) /\ Truthy(node.path)
    THEN Throw(node, "move path to httpOpts.path")
  ELSE Ok(node)

\* the three checks of a top-level path against the transport
VmessPathCheck(node) ==
  IF node.network = Str(Ws) /\ Truthy(node.path)
    THEN Throw(node, "move path to wsOpts.path")
  ELSE IF node.network = Str(H2) /\ Truthy(node.path)
    THEN Throw(node, "move path to h2Opts.path")
  ELSE IF node.network = Str(Http) /\ Truthy(node.path)
    THEN Throw(node, "move path to httpOpts.path")
  ELSE Ok(node)

prepareVmessNodeConfig(node) ==
  LET r == VmessWsHeaders(VmessSni(node))
  IN IF r.ok THEN VmessPathCheck(r.node) ELSE r

----------------------------------------------------------------------------
(* Inputs: the descriptors a node source can hold.  A descriptor is an     *)
(* object; a list is an array.  The batches are the lists of up to MaxLen  *)
(* descriptors of Core; every descriptor of a family stands between two    *)
(* valid descriptors, and every Vmess descriptor stands alone.             *)

MaxLen == 2
MaxCalls == 2

NameA == <<"n", "o", "d", "e">>
HostA == <<"e", "x", "a", "m", "p", "l", "e", ".", "c", "o", "m">>
MethodA == <<"a", "e", "s", "-", "2", "5", "6", "-", "g", "c", "m">>
PasswordA == <<"s", "e", "c", "r", "e", "t">>
PortA == <<"8", "3", "8", "8">>
SniA == <<"s", "n", "i", ".", "e", "x", "a", "m", "p", "l", "e", ".", "c", "o", "m">>
VHostA == <<"a", ".", "e", "x", "a", "m", "p", "l", "e", ".", "c", "o", "m">>
PathA == <<"/", "w", "s">>
OptsPathA == <<"/", "o", "p", "t", "s">>
OwnProxy == <<"o", "w", "n">>
DefaultProxy == <<"d", "e", "f", "a", "u", "l", "t">>
Bogus == <<"b", "o", "g", "u", "s">>
HeadersA == Obj({<<"k1", "v1">>})
HeadersB == Obj({<<"k2", "v2">>})

SsNode ==
  [BlankNode EXCEPT !.type = Str(Shadowsocks), !.nodeName = Str(NameA),
                    !.hostname = Str(HostA), !.port = Num(443),
                    !.method = Str(MethodA), !.password = Str(PasswordA)]
TrojanNode ==
  [BlankNode EXCEPT !.type = Str(Trojan), !.nodeName = Str(NameA),
                    !.hostname = Str(HostA), !.port = Num(443)]
VmessNode ==
  [BlankNode EXCEPT !.type = Str(Vmess), !.nodeName = Str(NameA),
                    !.hostname = Str(HostA), !.port = Num(443)]
\* a descriptor that carries a name and nothing else
BareNode == [BlankNode EXCEPT !.nodeName = Str(NameA)]

\* an envelope as a configuration author writes it
Envelope(scheme, payload, fragment) == Str(scheme \o Base64Encode(payload) \o fragment)

\* method:password@hostname:port
Payload(method, password, hostname, port) ==
  method \o <<":">> \o password \o <<"@">> \o hostname \o <<":">> \o port

PayloadFields ==
  [method : {MethodA},
   password : {PasswordA, <<"p", ":", "w">>, <<"p", "@", "w">>, <<>>},
   hostname : {HostA},
   port : {PortA, <<"8", "0", "x">>, <<>>}]

Payloads ==
  {Payload(p.method, p.password, p.hostname, p.port) : p \in PayloadFields}
    \cup {<<"g", "a", "r", "b", "a", "g", "e">>, <<"a", ":", "b">>}

Fragments == {<<>>, <<"#", "t", "a", "g">>}

Base64Values ==
  {Undef, Null, Str(<<>>), Num(0), Bool(FALSE), Num(5), Bool(TRUE),
   Str(<<"h", "t", "t", "p", ":", "/", "/", "Y", "W", "J", "j">>), Str(SsScheme), Str(<<"s", "s", ":", "/", "/", "Y", "W", "!", "j">>),
   Str(<<"t", "r", "o", "j", "a", "n", ":", "/", "/", "Y", "W", "J", "j">>), Str(<<"x", "s", "s", ":", "/", "/", "Y", "W", "J", "j">>), Str(<<"s", "s", ":", "/", "/", "Y", "W", "J", "j", " ", "t", "a", "g">>)}
    \cup {Envelope(SsScheme, p, f) : p \in Payloads, f \in Fragments}
    \cup {Envelope(VmessScheme, p, <<>>) : p \in {<<"{", "}">>}}

LegacyFamily ==
  {[d EXCEPT !.base64 = b] : d \in {SsNode, BareNode}, b \in Base64Values}

DeprecatedValues ==
  {Bool(TRUE), Bool(FALSE), Num(1), Num(0), Str(<<"x">>), Str(<<>>), Null}

DeprecatedFamily ==
  {[SsNode EXCEPT ![f] = v] : f \in {"udp-relay", "obfs-host", "obfs-uri"},
                               v \in DeprecatedValues}

UnderlyingFamily ==
  {[d EXCEPT !.underlyingProxy = u] :
     d \in {SsNode, VmessNode}, u \in {Undef, Str(<<>>), Str(OwnProxy), Num(1)}}

TypeFamily ==
  {[TrojanNode EXCEPT !.type = t] :
     t \in {Undef, Null, Str(Bogus), Str(<<>>), Str(Shadowsocksr), Str(Trojan),
            Str(Socks5), Str(HTTP), Str(HTTPS), Str(Snell), Str(Tuic),
            Str(Wireguard), Str(Hysteria2), Str(Vless)}}
    \cup {[TrojanNode EXCEPT !.hostname = Undef], [TrojanNode EXCEPT !.port = Num(0)],
          [SsNode EXCEPT !.method = Undef]}

WsOptsValues ==
  {Undef, Obj([headers |-> Undef, path |-> Str(OptsPathA)]),
   Obj([headers |-> HeadersB, path |-> Str(OptsPathA)])}

\* host and sni, with and without the legacy websocket fields
SniFamily ==
  {[VmessNode EXCEPT !.host = h, !.sni = s, !.wsHeaders = wh, !.network = n] :
     h \in {Undef, Str(<<>>), Str(VHostA)},
     s \in {Undef, Str(SniA)},
     wh \in {Undef, HeadersA},
     n \in {Undef, Str(Tcp)}}

\* wsHeaders, wsOpts, path and network, with and without host
WsFamily ==
  {[VmessNode EXCEPT !.host = h, !.wsHeaders = wh, !.wsOpts = wo, !.path = p,
                     !.network = n] :
     h \in {Undef, Str(VHostA)},
     wh \in {Undef, HeadersA},
     wo \in WsOptsValues,
     p \in {Undef, Str(<<>>), Str(PathA)},
     n \in Networks}

VmessFamily == SniFamily \cup WsFamily

\* the descriptors of the batches: some that pass, some that fail
Core ==
  {SsNode,
   [TrojanNode EXCEPT !.type = Undef],
   [SsNode EXCEPT !["udp-relay"] = Bool(TRUE)],
   [BareNode EXCEPT !.base64 = Envelope(SsScheme, Payload(MethodA, PasswordA, HostA, PortA), <<>>)],
   [VmessNode EXCEPT !.host = Str(VHostA)],
   [VmessNode EXCEPT !.wsHeaders = HeadersA, !.wsOpts = Obj([headers |-> HeadersB, path |-> Undef])]}

SeqsUpTo(S, n) == UNION {[1..m -> S] : m \in 0..n}

\* a descriptor between two valid ones
Between(d) == <<SsNode, d, [TrojanNode EXCEPT !.underlyingProxy = Str(OwnProxy)]>>

Batches == SeqsUpTo(Core, MaxLen)

InputLists ==
  Batches
    \cup {Between(d) : d \in LegacyFamily \cup DeprecatedFamily \cup UnderlyingFamily \cup TypeFamily}
    \cup {<<d>> : d \in VmessFamily}

\* the parameter bags a caller passes: none, or one naming the client
Bags == {Obj({<<"requestUserAgent", "clash">>})}
Args == {Undef} \cup Bags

\* the configurations the constructor accepts: a supplier, which resolves
\* with any list of InputLists, or a static batch
Providers ==
  [nodeList : {[k |-> "function"]} \cup {[k |-> "array", v |-> l] : l \in Batches},
   underlyingProxy : {Undef, Str(<<>>), Str(DefaultProxy)}]

----------------------------------------------------------------------------
(* The provider and getNodeList *)

VARIABLES
  this,            \* the provider: nodeList and underlyingProxy
  pc,              \* where the current call of getNodeList stands
  calls,           \* calls of getNodeList made so far
  arg,             \* what the caller passed to the current call
  params,          \* the parameter of the current call
  supplier,        \* the supplier: how often it was invoked, and with what last
  supplied,        \* what the supplier resolved with for the current call
  nodeList,        \* the local nodeList
  index,           \* the index forEach is at
  node,            \* the callback's node
  parsedNode,      \* the callback's parsedNode
  parsedNodeList,  \* the local parsedNodeList
  console          \* the lines console.error wrote during the current call

vars ==
  <<this, pc, calls, arg, params, supplier, supplied, nodeList, index, node,
    parsedNode, parsedNodeList, console>>

EmptyBag == Obj({})

Init ==
  /\ this \in Providers
  /\ pc = "idle"
  /\ calls = 0
  /\ arg = Undef
  /\ params = Undef
  /\ supplier = [invoked |-> 0, with |-> Undef]
  /\ supplied = <<>>
  /\ nodeList = <<>>
  /\ index = 0
  /\ node = BlankNode
  /\ parsedNode = BlankNode
  /\ parsedNodeList = <<>>
  /\ console = <<>>

\* forEach calls the callback on element i of list, or is done and the
\* call returns parsedNodeList
Enter(list, i) ==
  /\ index' = i
  /\ parsedNode' = BlankNode
  /\ IF i < Len(list)
       THEN pc' = "decode" /\ node' = list[i + 1]
       ELSE pc' = "returned" /\ node' = BlankNode

\* console.error('Invalid base64 format') precedes the throw of that error
BeforeThrow(err) ==
  IF err = "TypeError: Invalid base64 format"
    THEN <<[msg |-> "Invalid base64 format"]>> ELSE <<>>

\* a catch clause that throws again: the call rejects
CatchRethrow(err) ==
  /\ console' = console \o BeforeThrow(err) \o
                <<[msg |-> "Error parsing node at index", index |-> index, err |-> err]>>
  /\ pc' = "rejected"
  /\ UNCHANGED <<this, calls, arg, params, supplier, supplied, nodeList, index, node,
                 parsedNode, parsedNodeList>>

\* the catch clause of the callback: the error is written with the index,
\* and forEach goes on
Catch(err) ==
  /\ console' = console \o BeforeThrow(err) \o
                <<[msg |-> "Error parsing node at index", index |-> index, err |-> err]>>
  /\ Enter(nodeList, index + 1)
  /\ UNCHANGED <<this, calls, arg, params, supplier, supplied, nodeList, parsedNodeList>>

\* the default of the parameter is forgotten
DefaultParamsNone(a) == a

\* params = {}
DefaultParams(a) == IF a = Undef THEN EmptyBag ELSE a

\* nodeList = await this.nodeList(params)
Awaited(ret) == ret

\* a call of getNodeList, up to the await of the supplier or, with a static
\* list, up to the first callback; the calls follow one another, at most
\* MaxCalls of them
GetNodeList(a) ==
  /\ pc \in {"idle", "returned", "rejected"}
  /\ calls < MaxCalls
  /\ calls' = calls + 1
  /\ arg' = a
  /\ params' = DefaultParams(a)
  /\ parsedNodeList' = <<>>
  /\ console' = <<>>
  /\ supplied' = <<>>
  /\ IF this.nodeList.k = "function"
       THEN /\ supplier' = [invoked |-> supplier.invoked + 1, with |-> DefaultParams(a)]
            /\ pc' = "await"
            /\ nodeList' = <<>>
            /\ index' = 0
            /\ node' = BlankNode
            /\ parsedNode' = BlankNode
       ELSE /\ supplier' = supplier
            /\ nodeList' = this.nodeList.v
            /\ Enter(this.nodeList.v, 0)
  /\ UNCHANGED this

\* the supplier's promise resolves with a list
SupplierResolve(ret) ==
  /\ pc = "await"
  /\ supplied' = ret
  /\ nodeList' = Awaited(ret)
  /\ Enter(Awaited(ret), 0)
  /\ UNCHANGED <<this, calls, arg, params, supplier, parsedNodeList, console>>

\* the supplier's promise rejects: so does getNodeList
SupplierReject ==
  /\ pc = "await"
  /\ pc' = "rejected"
  /\ UNCHANGED <<this, calls, arg, params, supplier, supplied, nodeList, index,
                 node, parsedNode, parsedNodeList, console>>

\* if (node.base64) { ... }
DecodeStep ==
  /\ pc = "decode"
  /\ LET r == LegacyDecoder(node)
     IN IF r.ok
          THEN /\ node' = r.node
               /\ pc' = "guard"
               /\ UNCHANGED <<this, calls, arg, params, supplier, supplied, nodeList,
                              index, parsedNode, parsedNodeList, console>>
          ELSE Catch(r.err)

\* the three checks of a deprecated field
GuardStep ==
  /\ pc = "guard"
  /\ LET r == DeprecatedGuard(node)
     IN IF r.ok
          THEN /\ pc' = "dispatch"
               /\ UNCHANGED <<this, calls, arg, params, supplier, supplied, nodeList,
                              index, node, parsedNode, parsedNodeList, console>>
          ELSE Catch(r.err)

\* let parsedNode = (() => { switch (type) ... })()
DispatchStep ==
  /\ pc = "dispatch"
  /\ LET r == TypeDispatcher(node)
     IN IF r.ok
          THEN /\ parsedNode' = r.node
               /\ pc' = "fill"
               /\ UNCHANGED <<this, calls, arg, params, supplier, supplied, nodeList,
                              index, node, parsedNodeList, console>>
          ELSE Catch(r.err)

\* if (this.underlyingProxy && !parsedNode.underlyingProxy) ...
FillStep ==
  /\ pc = "fill"
  /\ parsedNode' = UnderlyingProxyFill(this.underlyingProxy, parsedNode)
  /\ pc' = "vmess"
  /\ UNCHANGED <<this, calls, arg, params, supplier, supplied, nodeList, index,
                 node, parsedNodeList, console>>

\* if (parsedNode.type === NodeTypeEnum.Vmess) ...
VmessStep ==
  /\ pc = "vmess"
  /\ LET r == IF parsedNode.type = Str(Vmess)
                THEN prepareVmessNodeConfig(parsedNode) ELSE Ok(parsedNode)
     IN IF r.ok
          THEN /\ parsedNode' = r.node
               /\ pc' = "push"
               /\ UNCHANGED <<this, calls, arg, params, supplier, supplied, nodeList,
                              index, node, parsedNodeList, console>>
          ELSE Catch(r.err)

\* unshift in place of push
PushFront(list, entry) == <<entry>> \o list

\* parsedNodeList.push(parsedNode)
Push(list, entry) == Append(list, entry)

PushStep ==
  /\ pc = "push"
  /\ parsedNodeList' = Push(parsedNodeList, parsedNode)
  /\ Enter(nodeList, index + 1)
  /\ UNCHANGED <<this, calls, arg, params, supplier, supplied, nodeList, console>>

Next ==
  \/ \E a \in Args : GetNodeList(a)
  \/ \E ret \in InputLists : SupplierResolve(ret)
  \/ SupplierReject
  \/ DecodeStep
  \/ GuardStep
  \/ DispatchStep
  \/ FillStep
  \/ VmessStep
  \/ PushStep

Spec == Init /\ [][Next]_vars

----------------------------------------------------------------------------
(* The callback as a function of the descriptor *)

\* the callback up to the underlying-proxy fill
Parsed(underlyingProxy, d) ==
  LET a == LegacyDecoder(d)
  IN IF ~a.ok THEN a
     ELSE LET b == DeprecatedGuard(a.node)
          IN IF ~b.ok THEN b
             ELSE LET c == TypeDispatcher(b.node)
                  IN IF ~c.ok THEN c
                     ELSE Ok(UnderlyingProxyFill(underlyingProxy, c.node))

\* the whole callback: the entry it pushes, or the error it catches
Callback(underlyingProxy, d) ==
  LET p == Parsed(underlyingProxy, d)
  IN IF p.ok /\ p.node.type = Str(Vmess) THEN prepareVmessNodeConfig(p.node) ELSE p

\* the entries of the descriptors of list that pass, in the order of list
RECURSIVE Survivors(_, _)
Survivors(underlyingProxy, list) ==
  IF list = <<>> THEN <<>>
  ELSE LET r == Callback(underlyingProxy, Head(list))
       IN (IF r.ok THEN <<r.node>> ELSE <<>>) \o Survivors(underlyingProxy, Tail(list))

RemoveAt(list, i) == SubSeq(list, 1, i - 1) \o SubSeq(list, i + 1, Len(list))

InLoop == pc \in {"decode", "guard", "dispatch", "fill", "vmess", "push"}

\* the descriptors forEach is done with: 0 .. Done - 1
Done == IF InLoop \/ pc = "returned" THEN index ELSE 0

\* the lines the catch clause wrote
FailureLines == {k \in 1..Len(console) : console[k].msg = "Error parsing node at index"}
FailuresAt(i) == {k \in FailureLines : console[k].index = i}
Failed(i) == FailuresAt(i) # {}
ErrorAt(i) == console[CHOOSE k \in FailuresAt(i) : TRUE].err

\* the entry of descriptor i, which did not fail
EntryAt(i) ==
  parsedNodeList[i + 1 - Cardinality({k \in FailureLines : console[k].index < i})]

----------------------------------------------------------------------------
(* Claims *)

\* C1: the list getNodeList builds is an order-preserving subsequence of
\* the input: after forEach is done with the first Done descriptors,
\* parsedNodeList holds exactly one entry for each of them that passes
\* every stage, no entry for one that fails, in the order of the
\* descriptors, so it is never longer than the input.
C1_OrderedSubsequence ==
  (InLoop \/ pc = "returned") =>
    /\ pc = "returned" => parsedNodeList = Survivors(this.underlyingProxy, nodeList)
    /\ Len(parsedNodeList) <= Len(nodeList)
    /\ Len(parsedNodeList) + Cardinality(FailureLines) = Done
    /\ \A i \in 0..(Done - 1) :
         LET r == Callback(this.underlyingProxy, nodeList[i + 1])
         IN IF r.ok THEN ~Failed(i) /\ EntryAt(i) = r.node ELSE Failed(i)

\* a call returned two different entries around a descriptor that failed
C1_Witness ==
  /\ pc = "returned"
  /\ Len(nodeList) = 3
  /\ Len(parsedNodeList) = 2
  /\ Failed(1)
  /\ parsedNodeList[1] # parsedNodeList[2]
  /\ parsedNodeList[1].type = Str(Shadowsocks)
  /\ parsedNodeList[2].type = Str(Trojan)

\* C2: a failure of one descriptor is isolated: the call does not reject
\* once its list is resolved, each descriptor that fails has one line of
\* the catch clause with its index and its error, and the list returned is
\* the list returned for the input without the failing descriptor.
C2_FailuresIsolated ==
  /\ pc = "rejected" => this.nodeList.k = "function" /\ nodeList = <<>> /\ console = <<>>
  /\ (InLoop \/ pc = "returned") =>
       \A i \in 0..(Done - 1) :
         LET r == Callback(this.underlyingProxy, nodeList[i + 1])
         IN ~r.ok =>
              /\ Cardinality(FailuresAt(i)) = 1
              /\ ErrorAt(i) = r.err
              /\ pc = "returned" =>
                   parsedNodeList = Survivors(this.underlyingProxy, RemoveAt(nodeList, i + 1))

\* a call returned the entries of the other descriptors of a batch in which
\* one failed
C2_Witness ==
  /\ pc = "returned"
  /\ Len(nodeList) = 3
  /\ Failed(1) /\ ~Failed(0) /\ ~Failed(2)
  /\ ErrorAt(1) = "TypeError: unrecognized node type"
  /\ Len(parsedNodeList) = 2

\* the ss envelopes whose payload is method:password@hostname:port with a
\* port of digits
SsEnvelopes ==
  {[fields |-> p, base64 |-> Envelope(SsScheme, Payload(p.method, p.password, p.hostname, p.port), f)] :
     p \in {q \in PayloadFields : q.port = PortA}, f \in Fragments}

\* C3: once the decoder is done with a descriptor whose envelope is
\* ss://<base64 of method:password@hostname:port>, the descriptor is not
\* dropped by the decoder and carries the type tag Shadowsocks and the
\* four fields of the payload, the port as a number, whatever the password
\* holds (a ":" or a "@" included).
C3_SsDecoded ==
  \A e \in SsEnvelopes :
    /\ \A i \in 0..(Done - 1) :
         nodeList[i + 1].base64 = e.base64 =>
           ~(Failed(i) /\ ErrorAt(i) = "TypeError: cannot read split of undefined")
    /\ (pc = "guard" /\ nodeList[index + 1].base64 = e.base64) =>
         /\ node.type = Str(Shadowsocks)
         /\ node.method = Str(e.fields.method)
         /\ node.password = Str(e.fields.password)
         /\ node.hostname = Str(e.fields.hostname)
         /\ node.port = ParseInt(Str(e.fields.port))

DeprecatedFields == {"udp-relay", "obfs-host", "obfs-uri"}
DeprecatedErrors ==
  {"udp-relay is deprecated, use udpRelay", "obfs-host is deprecated, use obfsHost",
   "obfs-uri is deprecated, use obfsUri"}

\* C4: a descriptor that carries a deprecated field, whatever its value,
\* never has an entry: once forEach is done with it, the catch clause has
\* written a line with its index, which names the deprecated field when
\* the decoder let the descriptor through.
C4_DeprecatedDropped ==
  \A i \in 0..(Done - 1) :
    (\E f \in DeprecatedFields : nodeList[i + 1][f] # Undef) =>
      /\ Failed(i)
      /\ LegacyDecoder(nodeList[i + 1]).ok => ErrorAt(i) \in DeprecatedErrors

\* C5: after the underlying-proxy fill, the entry carries the value the
\* descriptor declared, whatever it is (an empty string included); with
\* none declared it carries the provider's default, and none when the
\* provider has no default.
C5_DefaultFill ==
  pc = "vmess" =>
    LET declared == nodeList[index + 1].underlyingProxy
    IN IF declared # Undef THEN parsedNode.underlyingProxy = declared
       ELSE IF Truthy(this.underlyingProxy)
         THEN parsedNode.underlyingProxy = this.underlyingProxy
         ELSE parsedNode.underlyingProxy = Undef

\* C6: a Vmess entry that declared host and an explicit sni keeps its sni;
\* one that declared host and no sni has sni equal to host; one without
\* host has the sni it declared.
C6_SniFromHost ==
  (pc = "push" /\ parsedNode.type = Str(Vmess)) =>
    LET d == nodeList[index + 1]
    IN IF ~Truthy(d.host) THEN parsedNode.sni = d.sni
       ELSE IF d.sni # Undef THEN parsedNode.sni = d.sni
       ELSE parsedNode.sni = d.host

FormatErrors ==
  {"TypeError: Invalid base64 format", "TypeError: node.base64.match is not a function"}

\* C7: a descriptor whose base64 field is present and does not match the
\* pattern (an empty string, another falsy value or a value that is no
\* string included) is treated as format-invalid and has no entry: once
\* forEach is done with it, the catch clause has written a line with its
\* index and the error of the decoder.
C7_InvalidEnvelopeDropped ==
  \A i \in 0..(Done - 1) :
    LET b == nodeList[i + 1].base64
    IN (b # Undef /\ ~(IsStr(b) /\ MatchBase64Pattern(b.v).matched)) =>
         Failed(i) /\ ErrorAt(i) \in FormatErrors

\* C8: the node source is not cached.  With a supplier, every call has
\* invoked it exactly once, with the call's parameter (an empty bag when
\* the caller passed none), before any descriptor is processed, and the
\* call works on, and returns the entries of, what that invocation resolved
\* with.  With a static list no supplier is ever invoked and every call
\* works on the list of the provider.
C8_SourceNotCached ==
  IF this.nodeList.k = "function"
    THEN /\ supplier.invoked = calls
         /\ calls > 0 => supplier.with = (IF arg = Undef THEN EmptyBag ELSE arg)
         /\ pc = "await" => index = 0 /\ parsedNodeList = <<>> /\ console = <<>>
         /\ (InLoop \/ pc = "returned") => nodeList = supplied
         /\ pc = "returned" => parsedNodeList = Survivors(this.underlyingProxy, supplied)
    ELSE /\ supplier.invoked = 0
         /\ (InLoop \/ pc = "returned") => nodeList = this.nodeList.v
         /\ pc = "returned" => parsedNodeList = Survivors(this.underlyingProxy, this.nodeList.v)

\* the second call of a provider with a supplier, made without a
\* parameter, returned the entries of what the second invocation resolved
\* with
C8_Witness ==
  /\ this.nodeList.k = "function"
  /\ calls = 2
  /\ pc = "returned"
  /\ arg = Undef
  /\ supplier = [invoked |-> 2, with |-> EmptyBag]
  /\ Len(supplied) = 2
  /\ parsedNodeList # <<>>

ConflictError == "wsOpts.headers and wsHeaders cannot both be present"
PathErrors == {"move path to wsOpts.path", "move path to h2Opts.path", "move path to httpOpts.path"}

\* the Vmess node prepareVmessNodeConfig receives for descriptor i
VmessInput(i) == Parsed(this.underlyingProxy, nodeList[i + 1])
IsVmessInput(i) ==
  /\ nodeList[i + 1].type = Str(Vmess)
  /\ LET p == VmessInput(i) IN p.ok /\ p.node.type = Str(Vmess)

DeclaresBoth(n) ==
  n.wsHeaders # Undef /\ n.wsOpts # Undef /\ n.wsOpts.v.headers # Undef

\* C9: for a Vmess node that declares wsHeaders: with no wsOpts, the entry
\* has a wsOpts of headers = wsHeaders and path = the top-level path, "/"
\* when the node has none (an empty path counts as none); with a wsOpts
\* that declares headers, the node is dropped with the error of the
\* conflict; otherwise wsHeaders becomes the headers of its wsOpts, whose
\* path is unchanged.  Without wsHeaders the wsOpts is unchanged.
C9_WsHeaders ==
  \A i \in 0..(Done - 1) :
    IsVmessInput(i) =>
      LET n == VmessInput(i).node
          expected ==
            IF n.wsHeaders = Undef THEN n.wsOpts
            ELSE IF n.wsOpts = Undef
              THEN Obj([headers |-> n.wsHeaders,
                        path |-> IF n.path \in {Undef, Str(<<>>)} THEN Str(<<"/">>) ELSE n.path])
              ELSE Obj([headers |-> n.wsHeaders, path |-> n.wsOpts.v.path])
      IN IF DeclaresBoth(n)
           THEN Failed(i) /\ ErrorAt(i) = ConflictError
           ELSE IF Failed(i) THEN ErrorAt(i) \in PathErrors
                ELSE EntryAt(i).wsOpts = expected

\* a Vmess entry whose wsOpts was built from its wsHeaders and the default
\* path
C9_Witness ==
  /\ pc = "returned"
  /\ Len(nodeList) = 1
  /\ nodeList[1].type = Str(Vmess)
  /\ nodeList[1].wsHeaders = HeadersA
  /\ nodeList[1].wsOpts = Undef
  /\ nodeList[1].path = Undef
  /\ Len(parsedNodeList) = 1
  /\ parsedNodeList[1].wsOpts = Obj([headers |-> HeadersA, path |-> Str(<<"/">>)])

\* C10: a Vmess node whose network is ws, h2 or http and whose top-level
\* path is set (a path that is not empty) is dropped, with the error of its
\* transport unless it is dropped for declaring headers twice, also when
\* its wsOpts was just built from that path; a Vmess node of another
\* network or without a path is never dropped with one of these errors.
C10_PathAlwaysFires ==
  \A i \in 0..(Done - 1) :
    IsVmessInput(i) =>
      LET n == VmessInput(i).node
          fires == n.network \in {Str(Ws), Str(H2), Str(Http)} /\ n.path \notin {Undef, Str(<<>>)}
          error == CASE n.network = Str(Ws) -> "move path to wsOpts.path"
                     [] n.network = Str(H2) -> "move path to h2Opts.path"
                     [] OTHER -> "move path to httpOpts.path"
      IN IF fires
           THEN Failed(i) /\ (~DeclaresBoth(n) => ErrorAt(i) = error)
           ELSE Failed(i) => ErrorAt(i) \notin PathErrors

\* a ws node is dropped for its top-level path although its wsOpts was
\* just built with that path
C10_Witness ==
  /\ pc = "returned"
  /\ Len(nodeList) = 1
  /\ nodeList[1].type = Str(Vmess)
  /\ nodeList[1].network = Str(Ws)
  /\ nodeList[1].path = Str(PathA)
  /\ nodeList[1].wsHeaders = HeadersA
  /\ nodeList[1].wsOpts = Undef
  /\ parsedNodeList = <<>>
  /\ Failed(0) /\ ErrorAt(0) = "move path to wsOpts.path"

====
